---- MODULE Spec2Model ----
(***************************************************************************)
(* Model of the managed toolchain (self_heal.py, SelfHealToolchain) and of *)
(* the 9:16 transform pipeline (video_processor.py, VideoProcessor).       *)
(*                                                                         *)
(* Every public method is one action that models the whole call.  What    *)
(* the outside world decides (what ffprobe prints, how ffmpeg exits, what  *)
(* a download delivers) is an input of the action, drawn with \E.          *)
(***************************************************************************)
EXTENDS Integers, Sequences, FiniteSets, TLC

VARIABLES
    video_info,     \* what get_video_info(input_path) raises or returns
    ffmpeg_run,     \* how the transcoder subprocess ends
    output_file,    \* the file at output_path once the transcoder has ended
    crop_params,    \* dict returned by calculate_crop_parameters
    job,            \* record of the call made to the VideoProcessor
    fs,             \* the files the toolchain reads and writes
    temp_zip,       \* content of the NamedTemporaryFile of install_ffmpeg
    last,           \* record of the last SelfHealToolchain call
    checksum,       \* tool_info['checksum'] of every tool in self.tools
    check,          \* a call of the Checksum Verifier: arguments and result
    host,           \* what a VideoProcessor finds: config, environment, files, paths
    run,            \* a VideoProcessor from construction to the return of a job
    threads         \* the callers of heal_tool that run at the same time

vars == <<video_info, ffmpeg_run, output_file, crop_params, job, fs, temp_zip, last,
          checksum, check, host, run, threads>>
videoVars == <<video_info, ffmpeg_run, output_file, crop_params, job>>
toolVars == <<fs, temp_zip, last>>
checkVars == <<checksum, check>>
runVars == <<host, run>>

(***************************************************************************)
(* Bounds                                                                  *)
(***************************************************************************)
MaxDim == 16        \* source widths and heights 0..MaxDim are enumerated

\* 1080 and 1920 are added so that the landscape and portrait HD frames occur
Dims == (1..MaxDim) \cup {1080, 1920}
Dims0 == {0} \cup Dims

(***************************************************************************)
(* video_processor.py: get_video_info                                      *)
(***************************************************************************)
AudioStream == [codec_type |-> "audio", width |-> 0, height |-> 0]
VideoStream(w, h) == [codec_type |-> "video", width |-> w, height |-> h]

\* get_video_info either raises or returns the parsed ffprobe document.
\* raises = "none": the document, reduced to its 'streams' list.
ProbeRaises == {"CalledProcessError", "JSONDecodeError", "OSError"}

ProbeDocument(streams) == [raises |-> "none", streams |-> streams]
ProbeError(e) == [raises |-> e, streams |-> << >>]

get_video_info ==
    {ProbeError(e) : e \in ProbeRaises}
    \cup {ProbeDocument(<< >>), ProbeDocument(<<AudioStream>>)}
    \cup {ProbeDocument(<<VideoStream(w, h)>>) : w \in Dims0, h \in Dims0}
    \cup {ProbeDocument(<<AudioStream, VideoStream(w, h)>>) : w \in Dims, h \in Dims}
    \cup {ProbeDocument(<<VideoStream(0, 0), VideoStream(w, h)>>) : w \in {9, 16}, h \in {9, 16}}

(***************************************************************************)
(* video_processor.py: detect_aspect_ratio                                 *)
(***************************************************************************)
RECURSIVE detect_aspect_ratio(_)
detect_aspect_ratio(streams) ==
    IF streams = << >> THEN <<16, 9>>
    ELSE LET stream == Head(streams) IN
         IF stream.codec_type = "video" /\ stream.width # 0 /\ stream.height # 0
         THEN <<stream.width, stream.height>>
         ELSE detect_aspect_ratio(Tail(streams))

(***************************************************************************)
(* video_processor.py: calculate_crop_parameters                           *)
(*                                                                         *)
(* target_ratio = 9/16 = 0.5625 is exact in binary floating point, so      *)
(* int(height * target_ratio) is floor(height*9/16); width / target_ratio  *)
(* is the correctly rounded width*16/9, whose fraction is 0 or >= 1/9, so  *)
(* int() of it is floor(width*16/9); width/height differs from 9/16 by at  *)
(* least 1/(16*height) unless equal, so the comparison is the exact one.   *)
(***************************************************************************)
target_w == 9
target_h == 16

FallbackPlan ==
    [crop_x |-> 0, crop_y |-> 0, crop_width |-> "iw", crop_height |-> "ih",
     target_width |-> 1080, target_height |-> 1920]

\* ComputedPlan keeping the left edge instead of centring a wide source
ComputedPlan_uncentred(width, height) ==
    IF width * target_h > height * target_w
    THEN LET new_width == (height * target_w) \div target_h IN
         [crop_x |-> 0, crop_y |-> 0,
          crop_width |-> new_width, crop_height |-> height,
          original_width |-> width, original_height |-> height,
          target_width |-> new_width, target_height |-> height]
    ELSE LET new_height == (width * target_h) \div target_w IN
         [crop_x |-> 0, crop_y |-> (height - new_height) \div 2,
          crop_width |-> width, crop_height |-> new_height,
          original_width |-> width, original_height |-> height,
          target_width |-> width, target_height |-> new_height]

\* ComputedPlan rounding the height of a tall source up instead of down
ComputedPlan_roundup(width, height) ==
    IF width * target_h > height * target_w
    THEN LET new_width == (height * target_w) \div target_h IN
         [crop_x |-> (width - new_width) \div 2, crop_y |-> 0,
          crop_width |-> new_width, crop_height |-> height,
          original_width |-> width, original_height |-> height,
          target_width |-> new_width, target_height |-> height]
    ELSE LET new_height == (width * target_h + target_w - 1) \div target_w IN
         [crop_x |-> 0, crop_y |-> (height - new_height) \div 2,
          crop_width |-> width, crop_height |-> new_height,
          original_width |-> width, original_height |-> height,
          target_width |-> width, target_height |-> new_height]

\* ComputedPlan with the comparison of the two ratios turned around
ComputedPlan_flipped(width, height) ==
    IF width * target_h < height * target_w
    THEN LET new_width == (height * target_w) \div target_h IN
         [crop_x |-> (width - new_width) \div 2, crop_y |-> 0,
          crop_width |-> new_width, crop_height |-> height,
          original_width |-> width, original_height |-> height,
          target_width |-> new_width, target_height |-> height]
    ELSE LET new_height == (width * target_h) \div target_w IN
         [crop_x |-> 0, crop_y |-> (height - new_height) \div 2,
          crop_width |-> width, crop_height |-> new_height,
          original_width |-> width, original_height |-> height,
          target_width |-> width, target_height |-> new_height]

ComputedPlan(width, height) ==
    IF width * target_h > height * target_w
    THEN LET new_width == (height * target_w) \div target_h IN
         [crop_x |-> (width - new_width) \div 2, crop_y |-> 0,
          crop_width |-> new_width, crop_height |-> height,
          original_width |-> width, original_height |-> height,
          target_width |-> new_width, target_height |-> height]
    ELSE LET new_height == (width * target_h) \div target_w IN
         [crop_x |-> 0, crop_y |-> (height - new_height) \div 2,
          crop_width |-> width, crop_height |-> new_height,
          original_width |-> width, original_height |-> height,
          target_width |-> width, target_height |-> new_height]

\* The try block of calculate_crop_parameters: an exception of
\* get_video_info leaves it, otherwise it returns the computed dict
crop_try(info) ==
    IF info.raises # "none" THEN [raises |-> info.raises, value |-> FallbackPlan]
    ELSE LET wh == detect_aspect_ratio(info.streams)
         IN  [raises |-> "none", value |-> ComputedPlan(wh[1], wh[2])]

\* calculate_crop_parameters without its except clause
calculate_crop_parameters_reraise(info) == crop_try(info)

\* ... and its `except Exception` clause, which returns the fallback dict
calculate_crop_parameters(info) ==
    LET r == crop_try(info)
    IN  IF r.raises # "none" THEN [raises |-> "none", value |-> FallbackPlan] ELSE r

\* A plan of the non-fallback path carries the source size it was computed from
IsComputed(plan) == "original_width" \in DOMAIN plan

(***************************************************************************)
(* video_processor.py: validate_output                                     *)
(***************************************************************************)
MinOutputSize == 1024

NoFile == [exists |-> FALSE, size |-> 0, probe |-> ProbeError("CalledProcessError")]

\* The files ffmpeg can leave at output_path: sizes around the threshold,
\* and what ffprobe says about the file.
OutputFiles ==
    {NoFile}
    \cup {[exists |-> TRUE, size |-> 0, probe |-> ProbeError("CalledProcessError")]}
    \cup {[exists |-> TRUE, size |-> s, probe |-> p] :
            s \in {MinOutputSize - 1, MinOutputSize, 2 * MinOutputSize},
            p \in {ProbeError("CalledProcessError"), ProbeError("JSONDecodeError"),
                   ProbeDocument(<< >>), ProbeDocument(<<AudioStream>>),
                   ProbeDocument(<<AudioStream, VideoStream(1080, 1920)>>)}}

\* validate_output rejecting a file of exactly the threshold size
validate_output_strict(file) ==
    IF ~file.exists THEN FALSE
    ELSE IF file.size <= MinOutputSize THEN FALSE
    ELSE IF file.probe.raises # "none" THEN FALSE
    ELSE \E i \in 1..Len(file.probe.streams) : file.probe.streams[i].codec_type = "video"

validate_output(file) ==
    IF ~file.exists THEN FALSE
    ELSE IF file.size < MinOutputSize THEN FALSE
    ELSE IF file.probe.raises # "none" THEN FALSE
    ELSE \E i \in 1..Len(file.probe.streams) : file.probe.streams[i].codec_type = "video"

(***************************************************************************)
(* video_processor.py: process_to_9_16                                     *)
(***************************************************************************)
\* subprocess.run(cmd, check=True) of the transcoder: exit 0, a non-zero
\* exit (CalledProcessError) or the executable cannot be started (OSError)
TranscodeOutcomes == {"exit0", "nonzero", "OSError"}

\* process_to_9_16 judging by the output file alone
process_result_ignores_exit(transcode, out) == out.exists

\* The return statement reached after the transcoder has ended
process_result(transcode, out) ==
    IF transcode = "exit0" THEN out.exists ELSE FALSE

process_to_9_16(info, transcode, out) ==
    LET r == calculate_crop_parameters(info) IN
    IF r.raises # "none"
    THEN \* except Exception: the command is never built
         [op |-> "process_to_9_16",
          events |-> <<"calculate_crop_parameters">>,
          plan |-> r.value, transcode |-> "none", output |-> out,
          result |-> FALSE]
    ELSE [op |-> "process_to_9_16",
          events |-> <<"calculate_crop_parameters", "ffmpeg">>,
          plan |-> r.value, transcode |-> transcode, output |-> out,
          result |-> process_result(transcode, out)]

IdleJob ==
    [op |-> "none", events |-> << >>, plan |-> FallbackPlan, transcode |-> "none",
     output |-> NoFile, result |-> FALSE]

(***************************************************************************)
(* Actions of the video processor.  The initial states enumerate what the  *)
(* outside world answers during one call (what ffprobe prints for the      *)
(* source, how ffmpeg exits, the file found at output_path afterwards);    *)
(* each action is one call of a public method on those answers.            *)
(***************************************************************************)
CalculateCropParameters ==
    /\ job.op = "none"
    /\ crop_params' = calculate_crop_parameters(video_info).value
    /\ job' = [IdleJob EXCEPT !.op = "calculate_crop_parameters",
                              !.events = <<"calculate_crop_parameters">>,
                              !.plan = crop_params']
    /\ UNCHANGED <<video_info, ffmpeg_run, output_file>>
    /\ UNCHANGED <<toolVars, checkVars, runVars, threads>>

ProcessTo916 ==
    /\ job.op = "none"
    /\ job' = process_to_9_16(video_info, ffmpeg_run, output_file)
    /\ crop_params' = job'.plan
    /\ UNCHANGED <<video_info, ffmpeg_run, output_file>>
    /\ UNCHANGED <<toolVars, checkVars, runVars, threads>>

ValidateOutput ==
    /\ job.op = "none"
    /\ job' = [IdleJob EXCEPT !.op = "validate_output",
                              !.events = <<"validate_output">>,
                              !.output = output_file,
                              !.result = validate_output(output_file)]
    /\ UNCHANGED <<video_info, ffmpeg_run, output_file, crop_params>>
    /\ UNCHANGED <<toolVars, checkVars, runVars, threads>>

(***************************************************************************)
(* self_heal.py: SelfHealToolchain.__init__, the tools table               *)
(***************************************************************************)
\* self.tools, in the iteration order of the dict
ToolOrder == <<"ffmpeg", "yt-dlp">>
Tools == {ToolOrder[i] : i \in 1..Len(ToolOrder)}
\* a name that is not registered
ToolNames == Tools \cup {"aria2c"}

\* tool_info['executable']: the bare name, executed through the search path
Executable(tool_name) == IF tool_name = "ffmpeg" THEN "ffmpeg.exe" ELSE "yt-dlp.exe"
\* self.tools_path / tool_info['executable']
ToolPath(tool_name) ==
    IF tool_name = "ffmpeg" THEN "tools/ffmpeg.exe" ELSE "tools/yt-dlp.exe"

\* self.tools_path / tool_info['extract_path'], and the two files moved out of it
ExtractPath == "tools/ffmpeg-master-latest-win64-gpl/bin"
ExtractedExe(exe) ==
    IF exe = "ffmpeg.exe" THEN "tools/ffmpeg-master-latest-win64-gpl/bin/ffmpeg.exe"
    ELSE "tools/ffmpeg-master-latest-win64-gpl/bin/ffprobe.exe"
\* ffmpeg_dir / "bin" / exe
BinExe(exe) ==
    IF exe = "ffmpeg.exe" THEN "tools/ffmpeg/bin/ffmpeg.exe"
    ELSE "tools/ffmpeg/bin/ffprobe.exe"
MovedExes == <<"ffmpeg.exe", "ffprobe.exe">>

\* The bare names stand for what the host's search path resolves them to
SearchPathFiles == {Executable(t) : t \in Tools}
ManagedFiles ==
    {ToolPath(t) : t \in Tools} \cup {ExtractPath}
    \cup {ExtractedExe(MovedExes[i]) : i \in 1..2} \cup {BinExe(MovedExes[i]) : i \in 1..2}
Paths == SearchPathFiles \cup ManagedFiles

\* What is at a path: nothing, a directory, an executable that answers
\* `--version` with exit code 0, or a file that does not (corrupt, truncated,
\* built for another platform)
ExeContents == {"absent", "good", "bad"}

(***************************************************************************)
(* self_heal.py: check_tool_availability                                   *)
(***************************************************************************)
\* subprocess.run([path, '--version'], timeout=10) on the file at a path
Run(content) ==
    IF content = "good" THEN "exit0"
    ELSE IF content = "bad" THEN "nonzero"
    ELSE IF content = "hangs" THEN "TimeoutExpired"
    ELSE IF content = "noexec" THEN "PermissionError"
    ELSE "FileNotFoundError"

\* check_tool_availability giving up when the file in the tools directory
\* does not end its run
check_tool_availability_fatal(tool_name, f) ==
    IF tool_name \notin Tools
    THEN [available |-> FALSE, path |-> "Unknown tool", runs |-> << >>]
    ELSE LET tool_path == ToolPath(tool_name)
             executable == Executable(tool_name)
             first == IF f[tool_path] # "absent"
                      THEN <<[path |-> tool_path, exit |-> Run(f[tool_path])]>>
                      ELSE << >>
             second == <<[path |-> executable, exit |-> Run(f[executable])]>>
         IN  IF first # << >> /\ first[1].exit = "exit0"
             THEN [available |-> TRUE, path |-> tool_path, runs |-> first]
             ELSE IF first # << >> /\ first[1].exit = "TimeoutExpired"
             THEN [available |-> FALSE, path |-> "", runs |-> first]
             ELSE IF second[1].exit = "exit0"
             THEN [available |-> TRUE, path |-> executable, runs |-> first \o second]
             ELSE [available |-> FALSE, path |-> "", runs |-> first \o second]

\* check_tool_availability asking the search path before the tools directory
check_tool_availability_pathfirst(tool_name, f) ==
    IF tool_name \notin Tools
    THEN [available |-> FALSE, path |-> "Unknown tool", runs |-> << >>]
    ELSE LET tool_path == ToolPath(tool_name)
             executable == Executable(tool_name)
             first == IF f[tool_path] # "absent"
                      THEN <<[path |-> tool_path, exit |-> Run(f[tool_path])]>>
                      ELSE << >>
             second == <<[path |-> executable, exit |-> Run(f[executable])]>>
         IN  IF second[1].exit = "exit0"
             THEN [available |-> TRUE, path |-> executable, runs |-> second]
             ELSE IF first # << >> /\ first[1].exit = "exit0"
             THEN [available |-> TRUE, path |-> tool_path, runs |-> second \o first]
             ELSE [available |-> FALSE, path |-> "", runs |-> second \o first]

\* check_tool_availability trusting the file it finds in the tools directory
check_tool_availability_exists(tool_name, f) ==
    IF tool_name \notin Tools
    THEN [available |-> FALSE, path |-> "Unknown tool", runs |-> << >>]
    ELSE LET tool_path == ToolPath(tool_name)
             executable == Executable(tool_name)
             second == <<[path |-> executable, exit |-> Run(f[executable])]>>
         IN  IF f[tool_path] # "absent"
             THEN [available |-> TRUE, path |-> tool_path, runs |-> << >>]
             ELSE IF second[1].exit = "exit0"
             THEN [available |-> TRUE, path |-> executable, runs |-> second]
             ELSE [available |-> FALSE, path |-> "", runs |-> second]

\* The result tuple (available, path), with the executions the call made
check_tool_availability(tool_name, f) ==
    IF tool_name \notin Tools
    THEN [available |-> FALSE, path |-> "Unknown tool", runs |-> << >>]
    ELSE LET tool_path == ToolPath(tool_name)
             executable == Executable(tool_name)
             first == IF f[tool_path] # "absent"
                      THEN <<[path |-> tool_path, exit |-> Run(f[tool_path])]>>
                      ELSE << >>
             second == <<[path |-> executable, exit |-> Run(f[executable])]>>
         IN  IF first # << >> /\ first[1].exit = "exit0"
             THEN [available |-> TRUE, path |-> tool_path, runs |-> first]
             ELSE IF second[1].exit = "exit0"
             THEN [available |-> TRUE, path |-> executable, runs |-> first \o second]
             ELSE [available |-> FALSE, path |-> "", runs |-> first \o second]

\* get_tool_path: None is modelled as "None"
get_tool_path(tool_name, f) ==
    LET probe == check_tool_availability(tool_name, f)
    IN  IF probe.available THEN probe.path ELSE "None"

(***************************************************************************)
(* self_heal.py: calculate_file_checksum, verify_checksum                  *)
(*                                                                         *)
(* A checksum string "algorithm:hexdigest" is the pair <<algorithm,        *)
(* hexdigest>>, the empty string is << >>, a string without a colon is a   *)
(* 1-tuple.  A hash function is a table that gives different contents      *)
(* different hex digests.                                                  *)
(***************************************************************************)
EmptyChecksum == << >>
\* 'sha256:...', the value of 'checksum' in self.tools
PlaceholderChecksum == <<"sha256", "...">>

\* the contents a file handed to the verifier can have
FileContents == {"good", "bad", "zip_good"}
\* a file_path: a file that cannot be opened (missing, no permission) or a
\* readable file with its content
Files == {[readable |-> FALSE, content |-> "none"]}
         \cup {[readable |-> TRUE, content |-> c] : c \in FileContents}

\* hashlib.new(algorithm): the algorithms the host knows
Algorithms == {"sha256", "md5"}
hexdigest(algorithm, content) ==
    IF algorithm = "sha256"
    THEN (CASE content = "good" -> "9f2c" [] content = "bad" -> "41d0"
            [] content = "zip_good" -> "c7a3" [] content = "zip_bad" -> "1b4f"
            [] content = "zip_other" -> "60a1" [] content = "not_zip" -> "2e7d"
            [] content = "pinned" -> "a591" [] OTHER -> "e3b0")
    ELSE (CASE content = "good" -> "5d41" [] content = "bad" -> "7b8b"
            [] content = "zip_good" -> "0cc1" [] content = "zip_bad" -> "f96b"
            [] content = "zip_other" -> "8277" [] content = "not_zip" -> "c4ca"
            [] content = "pinned" -> "eccb" [] OTHER -> "d41d")

\* calculate_file_checksum returning the hex digest without the algorithm
calculate_file_checksum_bare(file, algorithm) ==
    IF algorithm \notin Algorithms THEN EmptyChecksum
    ELSE IF ~file.readable THEN EmptyChecksum
    ELSE <<hexdigest(algorithm, file.content)>>

\* hashlib.new raises ValueError for an unknown algorithm, open raises for
\* a file that cannot be read; `except Exception` returns ""
calculate_file_checksum(file, algorithm) ==
    IF algorithm \notin Algorithms THEN EmptyChecksum
    ELSE IF ~file.readable THEN EmptyChecksum
    ELSE <<algorithm, hexdigest(algorithm, file.content)>>

\* verify_checksum skipping the verification for the empty string only
verify_checksum_emptyonly(file, expected_checksum) ==
    IF expected_checksum = EmptyChecksum THEN TRUE
    ELSE calculate_file_checksum(file, "sha256") = expected_checksum

verify_checksum(file, expected_checksum) ==
    IF expected_checksum = EmptyChecksum \/ expected_checksum = PlaceholderChecksum
    THEN TRUE
    ELSE calculate_file_checksum(file, "sha256") = expected_checksum

\* The expected checksums handed to verify_checksum: unset, the
\* placeholder, the digest of a content, the same hex digest without the
\* algorithm, and the digest under another algorithm
ExpectedChecksums ==
    {EmptyChecksum, PlaceholderChecksum}
    \cup {<<"sha256", hexdigest("sha256", c)>> : c \in {"good", "zip_good"}}
    \cup {<<hexdigest("sha256", "good")>>, <<"md5", hexdigest("md5", "good")>>}

(***************************************************************************)
(* self_heal.py: download_file, extract_zip                                *)
(***************************************************************************)
\* What the download URL of a tool answers.  "HTTPError": urlopen raises
\* (404) before the destination is opened; "IncompleteRead": the transfer
\* breaks after the destination was opened; otherwise the body delivered.
Downloads(tool_name) ==
    IF tool_name = "ffmpeg"
    THEN {"HTTPError", "IncompleteRead", "zip_good", "zip_bad", "zip_other", "not_zip"}
    ELSE {"HTTPError", "IncompleteRead", "good", "bad"}

\* download_file(url, destination): the boolean returned and what is at the
\* destination afterwards (before: what was there)
download_file(d, before) ==
    IF d = "HTTPError" THEN [ok |-> FALSE, file |-> before]
    ELSE IF d = "IncompleteRead" THEN [ok |-> FALSE, file |-> "partial"]
    ELSE [ok |-> TRUE, file |-> d]

\* extract_zip(temp_zip, tools_path): the boolean returned and the files
\* after extractall.  zip_good and zip_bad hold extract_path with the two
\* executables (working / not working); zip_other is an archive with
\* another layout; anything else raises BadZipFile.
extract_zip(zip, f) ==
    IF zip \in {"zip_good", "zip_bad"}
    THEN LET c == IF zip = "zip_good" THEN "good" ELSE "bad"
         IN  [ok |-> TRUE,
              fs |-> [p \in Paths |->
                        IF p = ExtractPath THEN "dir"
                        ELSE IF p \in {ExtractedExe(MovedExes[i]) : i \in 1..2} THEN c
                        ELSE f[p]]]
    ELSE IF zip = "zip_other" THEN [ok |-> TRUE, fs |-> f]
    ELSE [ok |-> FALSE, fs |-> f]

(***************************************************************************)
(* self_heal.py: install_ffmpeg, install_yt_dlp                            *)
(***************************************************************************)
\* shutil.move(src, dst) for each exe in turn, when src exists
RECURSIVE move_executables(_, _)
move_executables(exes, f) ==
    IF exes = << >> THEN f
    ELSE LET src == ExtractedExe(Head(exes))
             dst == BinExe(Head(exes))
             moved == IF f[src] # "absent"
                      THEN [f EXCEPT ![dst] = f[src], ![src] = "absent"]
                      ELSE f
         IN  move_executables(Tail(exes), moved)

NoProbe == [available |-> FALSE, path |-> "", runs |-> << >>]

\* An install returns [result, fs, temp_zip], together with what it did:
\* downloads (urlopen calls), download (what the URL answered) and verify
\* (the check_tool_availability made after the files were put in place)
\* and log (the message of its logger.error call, "" when there is none).
install_ffmpeg(d, f, tmp) ==
    LET dl == download_file(d, "empty") IN
    IF ~dl.ok
    THEN [result |-> FALSE, fs |-> f, temp_zip |-> dl.file,
          downloads |-> 1, download |-> d, verify |-> NoProbe,
          log |-> "Download failed"]
    ELSE LET ex == extract_zip(dl.file, f) IN
    IF ~ex.ok
    THEN [result |-> FALSE, fs |-> f, temp_zip |-> dl.file,
          downloads |-> 1, download |-> d, verify |-> NoProbe,
          log |-> "Extraction failed"]
    ELSE LET placed == IF ex.fs[ExtractPath] # "absent"
                       THEN move_executables(MovedExes, ex.fs)
                       ELSE ex.fs
             verify == check_tool_availability("ffmpeg", placed)
         IN  [result |-> verify.available, fs |-> placed, temp_zip |-> "none",
              downloads |-> 1, download |-> d, verify |-> verify,
              log |-> IF verify.available THEN ""
                      ELSE "FFmpeg installation verification failed"]

\* install_yt_dlp returning True as soon as the download has succeeded
install_yt_dlp_noverify(d, f, tmp) ==
    LET destination == ToolPath("yt-dlp")
        dl == download_file(d, f[destination])
        written == [f EXCEPT ![destination] =
                        IF dl.file = "partial" THEN "bad" ELSE dl.file]
    IN  [result |-> dl.ok, fs |-> written, temp_zip |-> tmp,
         downloads |-> 1, download |-> d, verify |-> NoProbe,
         log |-> IF dl.ok THEN "" ELSE "Download failed"]

install_yt_dlp(d, f, tmp) ==
    LET destination == ToolPath("yt-dlp")
        dl == download_file(d, f[destination])
        written == [f EXCEPT ![destination] =
                        IF dl.file = "partial" THEN "bad" ELSE dl.file]
    IN  IF ~dl.ok
        THEN [result |-> FALSE, fs |-> written, temp_zip |-> tmp,
              downloads |-> 1, download |-> d, verify |-> NoProbe,
              log |-> "Download failed"]
        ELSE LET verify == check_tool_availability("yt-dlp", written)
             IN  [result |-> verify.available, fs |-> written, temp_zip |-> tmp,
                  downloads |-> 1, download |-> d, verify |-> verify,
                  log |-> IF verify.available THEN ""
                          ELSE "yt-dlp installation verification failed"]

(***************************************************************************)
(* self_heal.py: heal_tool, heal_all_tools                                 *)
(***************************************************************************)
\* heal_tool installing without looking at the first probe
heal_tool_always_install(tool_name, d, f, tmp) ==
    LET before == check_tool_availability(tool_name, f)
        none == [result |-> FALSE, fs |-> f, temp_zip |-> tmp,
                 downloads |-> 0, download |-> "none", verify |-> NoProbe,
                 log |-> "Unknown tool"]
    IN  [before |-> before, tool |-> tool_name]
        @@ (IF tool_name = "ffmpeg" THEN install_ffmpeg(d, f, tmp)
            ELSE IF tool_name = "yt-dlp" THEN install_yt_dlp(d, f, tmp)
            ELSE none)

\* heal_tool returns what an install returns, with the first probe (before)
heal_tool(tool_name, d, f, tmp) ==
    LET before == check_tool_availability(tool_name, f)
        none == [result |-> FALSE, fs |-> f, temp_zip |-> tmp,
                 downloads |-> 0, download |-> "none", verify |-> NoProbe,
                 log |-> "Unknown tool"]
    IN  [before |-> before, tool |-> tool_name]
        @@ (IF before.available THEN [none EXCEPT !.result = TRUE, !.log = ""]
            ELSE IF tool_name = "ffmpeg" THEN install_ffmpeg(d, f, tmp)
            ELSE IF tool_name = "yt-dlp" THEN install_yt_dlp(d, f, tmp)
            ELSE none)

\* heal_all_tools: the loop over self.tools.  ds[i] is what the URL of the
\* i-th tool answers.  Returns the sequence of the heal_tool records made
\* (results[tool_name] is the result field of the record of tool_name).
\* heal_all_tools giving up at the first tool that could not be healed
RECURSIVE heal_all_tools_failfast(_, _, _, _)
heal_rest_failfast(h, names, ds) ==
    IF h.result
    THEN <<h>> \o heal_all_tools_failfast(names, ds, h.fs, h.temp_zip)
    ELSE <<h>>

heal_all_tools_failfast(names, ds, f, tmp) ==
    IF names = << >> THEN << >>
    ELSE heal_rest_failfast(heal_tool(Head(names), Head(ds), f, tmp),
                            Tail(names), Tail(ds))

RECURSIVE heal_all_tools(_, _, _, _)
heal_rest(h, names, ds) == <<h>> \o heal_all_tools(names, ds, h.fs, h.temp_zip)

heal_all_tools(names, ds, f, tmp) ==
    IF names = << >> THEN << >>
    ELSE heal_rest(heal_tool(Head(names), Head(ds), f, tmp), Tail(names), Tail(ds))

(***************************************************************************)
(* Actions of the toolchain.  `last` records the call just made: its       *)
(* arguments, what it returned and what it did.                            *)
(***************************************************************************)
ProbeOps == {"check_tool_availability", "get_tool_path"}

\* the previous event removed or broke, behind the toolchain's back, the
\* very file that the call before it had reported for tool_name
AfterLoss(tool_name) ==
    last.op = "out_of_band" /\ last.stale /\ last.tool = tool_name

CheckToolAvailability ==
    \E tool_name \in ToolNames :
        /\ last' = [op |-> "check_tool_availability", tool |-> tool_name,
                    probe |-> check_tool_availability(tool_name, fs),
                    path |-> check_tool_availability(tool_name, fs).path,
                    after_loss |-> AfterLoss(tool_name)]
        /\ UNCHANGED <<fs, temp_zip>>
        /\ UNCHANGED <<videoVars, checkVars, runVars, threads>>

GetToolPath ==
    \E tool_name \in ToolNames :
        /\ last' = [op |-> "get_tool_path", tool |-> tool_name,
                    probe |-> check_tool_availability(tool_name, fs),
                    path |-> get_tool_path(tool_name, fs),
                    after_loss |-> AfterLoss(tool_name)]
        /\ UNCHANGED <<fs, temp_zip>>
        /\ UNCHANGED <<videoVars, checkVars, runVars, threads>>

\* Whether the call before this one was a heal_tool of the same tool that
\* returned True, and whether that one went through an install
Follows(tool_name) ==
    IF last.op = "heal_tool" /\ last.tool = tool_name /\ last.result
    THEN (IF last.downloads > 0 THEN "install" ELSE "probe")
    ELSE "no"

HealTool ==
    \E tool_name \in ToolNames : \E d \in Downloads(tool_name) :
        \E h \in {heal_tool(tool_name, d, fs, temp_zip)} :
        /\ fs' = h.fs
        /\ temp_zip' = h.temp_zip
        /\ last' = [op |-> "heal_tool", tool |-> tool_name, result |-> h.result,
                    before |-> h.before, downloads |-> h.downloads,
                    download |-> h.download, verify |-> h.verify,
                    wrote |-> (h.fs # fs \/ h.temp_zip # temp_zip),
                    follows |-> Follows(tool_name)]
        /\ UNCHANGED <<videoVars, checkVars, runVars, threads>>

InstallFfmpeg ==
    \E d \in Downloads("ffmpeg") :
        \E h \in {install_ffmpeg(d, fs, temp_zip)} :
        /\ fs' = h.fs
        /\ temp_zip' = h.temp_zip
        /\ last' = [op |-> "install_ffmpeg", tool |-> "ffmpeg", result |-> h.result,
                    downloads |-> h.downloads, download |-> h.download,
                    verify |-> h.verify, log |-> h.log]
        /\ UNCHANGED <<videoVars, checkVars, runVars, threads>>

InstallYtDlp ==
    \E d \in Downloads("yt-dlp") :
        \E h \in {install_yt_dlp(d, fs, temp_zip)} :
        /\ fs' = h.fs
        /\ temp_zip' = h.temp_zip
        /\ last' = [op |-> "install_yt_dlp", tool |-> "yt-dlp", result |-> h.result,
                    downloads |-> h.downloads, download |-> h.download,
                    verify |-> h.verify, log |-> h.log]
        /\ UNCHANGED <<videoVars, checkVars, runVars, threads>>

\* results = {}; results[tool_name] = heal_tool(tool_name) for each record
ResultsOf(heals) ==
    [t \in {heals[i].tool : i \in 1..Len(heals)} |->
        LET i == CHOOSE j \in 1..Len(heals) :
                    /\ heals[j].tool = t
                    /\ \A k \in (j + 1)..Len(heals) : heals[k].tool # t
        IN  heals[i].result]

HealAllTools ==
    \E d1 \in Downloads(ToolOrder[1]), d2 \in Downloads(ToolOrder[2]) :
        \E heals \in {heal_all_tools(ToolOrder, <<d1, d2>>, fs, temp_zip)} :
        /\ fs' = IF heals = << >> THEN fs ELSE heals[Len(heals)].fs
        /\ temp_zip' = IF heals = << >> THEN temp_zip ELSE heals[Len(heals)].temp_zip
        /\ last' = [op |-> "heal_all_tools", tool |-> "all",
                    results |-> ResultsOf(heals),
                    heals |-> [i \in 1..Len(heals) |->
                                [tool |-> heals[i].tool, result |-> heals[i].result,
                                 healthy |-> heals[i].before.available,
                                 downloads |-> heals[i].downloads,
                                 download |-> heals[i].download]]]
        /\ UNCHANGED <<videoVars, checkVars, runVars, threads>>

\* The world outside the toolchain: a user or another program installs,
\* deletes or corrupts an executable in the tools directory or on the
\* search path.
EnvFiles == SearchPathFiles \cup {ToolPath(t) : t \in Tools}
ToolOf(p) == CHOOSE t \in Tools : p \in {ToolPath(t), Executable(t)}

OutOfBand ==
    \E p \in EnvFiles, c \in ExeContents :
        /\ fs[p] # c
        /\ fs' = [fs EXCEPT ![p] = c]
        /\ last' = [op |-> "out_of_band", tool |-> ToolOf(p), path |-> p,
                    stale |-> /\ last.op \in ProbeOps
                              /\ last.probe.available
                              /\ last.probe.path = p
                              /\ c # "good"]
        /\ UNCHANGED temp_zip
        /\ UNCHANGED <<videoVars, checkVars, runVars, threads>>

(***************************************************************************)
(* Actions of the Checksum Verifier: one call on the file, the expected    *)
(* checksum and the algorithm the initial state holds                      *)
(***************************************************************************)
NoCheck == [op |-> "none", file |-> [readable |-> FALSE, content |-> "none"],
            expected |-> EmptyChecksum, algorithm |-> "sha256", result |-> "none",
            raises |-> "none"]

CalculateFileChecksum ==
    /\ check.op = "none"
    \* `except Exception` returns "": no exception leaves the method
    /\ check' = [check EXCEPT !.op = "calculate_file_checksum",
                              !.result = calculate_file_checksum(check.file, check.algorithm),
                              !.raises = "none"]
    /\ UNCHANGED <<checksum, toolVars, videoVars, runVars, threads>>

VerifyChecksum ==
    /\ check.op = "none"
    /\ check' = [check EXCEPT !.op = "verify_checksum",
                              !.algorithm = "sha256",
                              !.result = verify_checksum(check.file, check.expected)]
    /\ UNCHANGED <<checksum, toolVars, videoVars, runVars, threads>>

(***************************************************************************)
(* video_processor.py: __init__, _get_ffmpeg_path, and the subprocesses of *)
(* one job.  A job is the construction of a VideoProcessor followed by one *)
(* call of process_to_9_16(input_path, output_path), taken step by step: a *)
(* step ends where the call waits for a subprocess.                        *)
(***************************************************************************)
\* config['ffmpeg_path'] and os.environ['FFMPEG_BIN'] when they are set
ConfigPath == "D:\\apps\\ffmpeg\\ffmpeg.exe"
EnvPath == "E:\\bin\\ffmpeg.exe"

common_paths == <<"%USERPROFILE%\\TrendClipOne\\tools\\ffmpeg\\bin\\ffmpeg.exe",
                  "C:\\ffmpeg\\bin\\ffmpeg.exe",
                  "ffmpeg">>

\* os.path.expandvars: %USERPROFILE% is replaced by the user's directory
expandvars(path) ==
    IF path = common_paths[1]
    THEN "C:\\Users\\user\\TrendClipOne\\tools\\ffmpeg\\bin\\ffmpeg.exe"
    ELSE path

\* the places where a transcoder executable may or may not exist
ExePaths == {ConfigPath, EnvPath} \cup {expandvars(common_paths[i]) : i \in 1..Len(common_paths)}

\* the video files
InputPath == "in.mp4"
JobPaths == {InputPath, "out.mp4"}

\* _get_ffmpeg_path: the configured path and the environment's path are
\* returned as they are; only the common locations are tested for existence
get_ffmpeg_path(h) ==
    IF h.config # "unset"
    THEN [raises |-> "none", path |-> h.config]
    ELSE IF h.env \notin {"unset", ""}
    THEN [raises |-> "none", path |-> h.env]
    ELSE IF \E i \in 1..Len(common_paths) : expandvars(common_paths[i]) \in h.exists
    THEN [raises |-> "none",
          path |-> expandvars(common_paths[
                      CHOOSE i \in 1..Len(common_paths) :
                          /\ expandvars(common_paths[i]) \in h.exists
                          /\ \A j \in 1..(i - 1) : expandvars(common_paths[j]) \notin h.exists])]
    ELSE [raises |-> "FileNotFoundError", path |-> ""]

\* cmd of process_to_9_16: the executable, '-i' input_path, the crop of the
\* filter, '-y' and output_path
\* scale=1080:1920 and pad=1080:1920 of the '-vf' filter
scale_width == 1080
scale_height == 1920

ffmpeg_cmd(ffmpeg_path, input_path, plan, output_path) ==
    [executable |-> ffmpeg_path, i |-> input_path, crop |-> plan,
     scale |-> [width |-> scale_width, height |-> scale_height], y |-> TRUE,
     output |-> output_path]

NoCmd == [executable |-> "", i |-> "", crop |-> FallbackPlan,
          scale |-> [width |-> scale_width, height |-> scale_height], y |-> FALSE,
          output |-> ""]

\* A host: the configuration and environment of the VideoProcessor, the
\* transcoder executables that exist, the paths of the job, and whether
\* the ffprobe and the ffmpeg subprocess ever exit
Hosts ==
    [config : {"unset", ConfigPath}, env : {"unset", "", EnvPath},
     exists : SUBSET ExePaths, output_path : JobPaths,
     ffprobe_exits : BOOLEAN, ffmpeg_exits : BOOLEAN]

NoHost == [config |-> "unset", env |-> "unset", exists |-> {}, output_path |-> "out.mp4",
           ffprobe_exits |-> TRUE, ffmpeg_exits |-> TRUE]

\* run.pc: "new" before __init__, "constructed" after it, "raised" when it
\* raised, "ffprobe" and "ffmpeg" while subprocess.run waits for the
\* subprocess, "returned" when process_to_9_16 has returned
NewRun ==
    [pc |-> "new", ffmpeg_path |-> "", events |-> << >>, cmd |-> NoCmd,
     files |-> [p \in JobPaths |-> IF p = InputPath THEN "source" ELSE "absent"],
     result |-> FALSE]

\* VideoProcessor(config)
NewVideoProcessor ==
    /\ run.pc = "new"
    /\ \E r \in {get_ffmpeg_path(host)} :
         run' = [run EXCEPT !.pc = IF r.raises = "none" THEN "constructed" ELSE "raised",
                            !.ffmpeg_path = r.path,
                            !.events = <<"_get_ffmpeg_path">>]
    /\ UNCHANGED <<host, videoVars, toolVars, checkVars, threads>>

\* process_to_9_16 up to the subprocess.run of get_video_info.  When there
\* is no executable at the path, both subprocess.run calls raise at once:
\* the first exception is caught by calculate_crop_parameters, the second
\* by process_to_9_16.
ProcessTo916Begins ==
    /\ run.pc = "constructed"
    /\ IF run.ffmpeg_path \in host.exists
       THEN /\ run' = [run EXCEPT !.pc = "ffprobe", !.events = @ \o <<"ffprobe">>]
            /\ UNCHANGED <<crop_params, job>>
       ELSE /\ job' = process_to_9_16(ProbeError("OSError"), "OSError", NoFile)
            /\ crop_params' = job'.plan
            /\ run' = [run EXCEPT !.pc = "returned",
                                  !.events = @ \o <<"calculate_crop_parameters">>,
                                  !.cmd = ffmpeg_cmd(run.ffmpeg_path, InputPath, job'.plan,
                                                     host.output_path),
                                  !.result = job'.result]
    /\ UNCHANGED <<host, video_info, ffmpeg_run, output_file, toolVars, checkVars, threads>>

\* The ffprobe subprocess exits: get_video_info returns or raises, the plan
\* is made, cmd is built and subprocess.run starts the transcoder
FfprobeExits ==
    /\ run.pc = "ffprobe"
    /\ host.ffprobe_exits
    /\ crop_params' = calculate_crop_parameters(video_info).value
    /\ run' = [run EXCEPT !.pc = "ffmpeg",
                          !.events = @ \o <<"calculate_crop_parameters", "ffmpeg">>,
                          !.cmd = ffmpeg_cmd(run.ffmpeg_path, InputPath, crop_params',
                                             host.output_path)]
    /\ UNCHANGED <<host, video_info, ffmpeg_run, output_file, job, toolVars, checkVars,
                   threads>>

\* The transcoder exits: what it wrote is at output_path, and
\* process_to_9_16 returns
FfmpegExits ==
    /\ run.pc = "ffmpeg"
    /\ host.ffmpeg_exits
    /\ job' = process_to_9_16(video_info, ffmpeg_run, output_file)
    /\ run' = [run EXCEPT !.pc = "returned",
                          !.files[host.output_path] =
                              IF ffmpeg_run = "exit0" /\ output_file.exists
                              THEN "transcoded" ELSE @,
                          !.result = job'.result]
    /\ UNCHANGED <<host, video_info, ffmpeg_run, output_file, crop_params, toolVars,
                   checkVars, threads>>

(***************************************************************************)
(* self_heal.py: heal_tool called by several threads at the same time      *)
(***************************************************************************)
Procs == {1, 2}

\* thread.pc: "idle" when the thread makes no call, "called" when it has
\* called heal_tool(tool), then "download", "extract", "move" and "verify"
\* before the step of that name of the install, "returned" at the end.
\* download is what the URL answers to this thread, temp its own
\* NamedTemporaryFile.
\* wrote is the set of paths the thread's install has created, written,
\* moved or deleted so far.
IdleThread == [pc |-> "idle", tool |-> "none", download |-> "none", temp |-> "none",
               result |-> FALSE, wrote |-> {}]

\* tempfile.NamedTemporaryFile(suffix='.zip', delete=False): a fresh name
\* for every call
TempName(p) == IF p = 1 THEN "tmp1.zip" ELSE "tmp2.zip"

\* extractall counted as rewriting everything under the tools directory
extract_writes_toolsdir(zip) == ManagedFiles

\* the paths zipfile.extractall(tools_path) creates for an archive
extract_writes(zip) ==
    IF zip \in {"zip_good", "zip_bad"}
    THEN {ExtractPath} \cup {ExtractedExe(MovedExes[i]) : i \in 1..Len(MovedExes)}
    ELSE IF zip = "zip_other" THEN {"tools/ffmpeg-other"}
    ELSE {}

\* heal_tool up to the call of the install: the first probe
ThreadProbes ==
    \E p \in Procs :
        /\ threads[p].pc = "called"
        /\ threads' = [threads EXCEPT ![p] =
                IF check_tool_availability(threads[p].tool, fs).available
                THEN [@ EXCEPT !.pc = "returned", !.result = TRUE]
                ELSE [@ EXCEPT !.pc = "download"]]
        /\ UNCHANGED <<toolVars, videoVars, checkVars, runVars>>

\* download_file: to the executable's path for yt-dlp, to the temporary
\* file for ffmpeg
ThreadDownloads ==
    \E p \in Procs :
        /\ threads[p].pc = "download"
        /\ IF threads[p].tool = "yt-dlp"
           THEN \E dl \in {download_file(threads[p].download, fs[ToolPath("yt-dlp")])} :
                /\ fs' = [fs EXCEPT ![ToolPath("yt-dlp")] =
                                IF dl.file = "partial" THEN "bad" ELSE dl.file]
                /\ threads' = [threads EXCEPT ![p] =
                        [@ EXCEPT !.pc = IF dl.ok THEN "verify" ELSE "returned",
                                  !.result = FALSE,
                                  !.wrote = IF threads[p].download = "HTTPError" THEN @
                                            ELSE @ \cup {ToolPath("yt-dlp")}]]
           ELSE \E dl \in {download_file(threads[p].download, "empty")} :
                /\ fs' = fs
                /\ threads' = [threads EXCEPT ![p] =
                        [@ EXCEPT !.pc = IF dl.ok THEN "extract" ELSE "returned",
                                  !.temp = dl.file,
                                  !.result = FALSE,
                                  !.wrote = @ \cup {TempName(p)}]]
        /\ UNCHANGED <<temp_zip, last, videoVars, checkVars, runVars>>

\* extract_zip(temp_zip, tools_path) of install_ffmpeg
ThreadExtracts ==
    \E p \in Procs :
        /\ threads[p].pc = "extract"
        /\ \E ex \in {extract_zip(threads[p].temp, fs)} :
            /\ fs' = ex.fs
            /\ threads' = [threads EXCEPT ![p] =
                    [@ EXCEPT !.pc = IF ex.ok THEN "move" ELSE "returned",
                              !.result = FALSE,
                              !.wrote = @ \cup extract_writes(threads[p].temp)]]
        /\ UNCHANGED <<temp_zip, last, videoVars, checkVars, runVars>>

\* the shutil.move loop and os.unlink(temp_zip) of install_ffmpeg
ThreadMoves ==
    \E p \in Procs :
        /\ threads[p].pc = "move"
        /\ fs' = IF fs[ExtractPath] # "absent" THEN move_executables(MovedExes, fs) ELSE fs
        /\ threads' = [threads EXCEPT ![p] =
                [@ EXCEPT !.pc = "verify", !.temp = "none",
                          !.wrote = @ \cup {TempName(p)}
                                      \cup {path \in {ExtractedExe(MovedExes[i]) : i \in 1..2}
                                                     \cup {BinExe(MovedExes[i]) : i \in 1..2} :
                                                fs'[path] # fs[path]}]]
        /\ UNCHANGED <<temp_zip, last, videoVars, checkVars, runVars>>

\* the check_tool_availability that ends both installs
ThreadVerifies ==
    \E p \in Procs :
        /\ threads[p].pc = "verify"
        /\ threads' = [threads EXCEPT ![p] =
                [@ EXCEPT !.pc = "returned",
                          !.result = check_tool_availability(threads[p].tool, fs).available]]
        /\ UNCHANGED <<toolVars, videoVars, checkVars, runVars>>

(***************************************************************************)
(* Specifications                                                          *)
(***************************************************************************)
\* VideoProcessor: one call on every answer of the outside world; the
\* toolchain is left alone
VideoInit ==
    /\ video_info \in get_video_info
    /\ ffmpeg_run \in TranscodeOutcomes
    /\ output_file \in OutputFiles
    /\ crop_params = FallbackPlan
    /\ job = IdleJob
    /\ fs = [p \in Paths |-> "absent"]
    /\ temp_zip = "none"
    /\ last = [op |-> "init", tool |-> "none"]
    /\ checksum = [t \in Tools |-> PlaceholderChecksum]
    /\ check = NoCheck
    /\ host = NoHost
    /\ run = NewRun
    /\ threads = [p \in Procs |-> IdleThread]

\* SelfHealToolchain after __init__: the tools directory exists; the host
\* may or may not already have each tool in it or on its search path.  No
\* video is processed.
ToolInit ==
    /\ fs \in {f \in [Paths -> ExeContents] : \A p \in Paths \ EnvFiles : f[p] = "absent"}
    /\ temp_zip = "none"
    /\ last = [op |-> "init", tool |-> "none"]
    /\ video_info = ProbeError("OSError")
    /\ ffmpeg_run = "OSError"
    /\ output_file = NoFile
    /\ crop_params = FallbackPlan
    /\ job = IdleJob
    /\ checksum = [t \in Tools |-> PlaceholderChecksum]
    /\ check = NoCheck
    /\ host = NoHost
    /\ run = NewRun
    /\ threads = [p \in Procs |-> IdleThread]

\* The Checksum Verifier on every file, expected checksum and algorithm
\* ("sha1" stands for a name hashlib does not know on the host)
ChecksumInit ==
    /\ check \in [op : {"none"}, file : Files, expected : ExpectedChecksums,
                  algorithm : Algorithms \cup {"sha1"}, result : {"none"},
                  raises : {"none"}]
    /\ checksum = [t \in Tools |-> PlaceholderChecksum]
    /\ host = NoHost
    /\ run = NewRun
    /\ threads = [p \in Procs |-> IdleThread]
    /\ fs = [p \in Paths |-> "absent"]
    /\ temp_zip = "none"
    /\ last = [op |-> "init", tool |-> "none"]
    /\ video_info = ProbeError("OSError")
    /\ ffmpeg_run = "OSError"
    /\ output_file = NoFile
    /\ crop_params = FallbackPlan
    /\ job = IdleJob

ChecksumNext == CalculateFileChecksum \/ VerifyChecksum

\* The 'checksum' entry of a tool in self.tools: the placeholder the source
\* ships, the digest of the artifact the URL delivers today, or the digest
\* of the release the entry was written for (the URLs name "latest")
ToolChecksums(tool_name) ==
    {PlaceholderChecksum,
     <<"sha256", hexdigest("sha256", "pinned")>>,
     <<"sha256", hexdigest("sha256", IF tool_name = "ffmpeg" THEN "zip_good" ELSE "good")>>}

\* The installers on every host, with every checksum table
InstallInit ==
    /\ fs \in {f \in [Paths -> ExeContents] : \A p \in Paths \ EnvFiles : f[p] = "absent"}
    /\ checksum \in {c \in [Tools -> UNION {ToolChecksums(t) : t \in Tools}] :
                        \A t \in Tools : c[t] \in ToolChecksums(t)}
    /\ temp_zip = "none"
    /\ last = [op |-> "init", tool |-> "none"]
    /\ check = NoCheck
    /\ host = NoHost
    /\ run = NewRun
    /\ threads = [p \in Procs |-> IdleThread]
    /\ video_info = ProbeError("OSError")
    /\ ffmpeg_run = "OSError"
    /\ output_file = NoFile
    /\ crop_params = FallbackPlan
    /\ job = IdleJob

InstallNext == InstallFfmpeg \/ InstallYtDlp

\* One job on every host: a landscape source, a source ffprobe cannot
\* read; every end of the transcoder; an output file or none
JobInit ==
    /\ host \in Hosts
    /\ run = NewRun
    /\ video_info \in {ProbeDocument(<<AudioStream, VideoStream(1920, 1080)>>),
                       ProbeError("CalledProcessError")}
    /\ ffmpeg_run \in TranscodeOutcomes \ {"OSError"}
    /\ output_file \in {NoFile,
                        [exists |-> TRUE, size |-> 2 * MinOutputSize,
                         probe |-> ProbeDocument(<<AudioStream, VideoStream(1080, 1920)>>)]}
    /\ crop_params = FallbackPlan
    /\ job = IdleJob
    /\ fs = [p \in Paths |-> "absent"]
    /\ temp_zip = "none"
    /\ last = [op |-> "init", tool |-> "none"]
    /\ checksum = [t \in Tools |-> PlaceholderChecksum]
    /\ check = NoCheck
    /\ threads = [p \in Procs |-> IdleThread]

\* The probe on every host: at the tool's place in the tools directory and
\* on the search path there is nothing, a working executable, one that
\* exits non-zero, one that does not exit within the timeout ("hangs"), or
\* a file the system refuses to start ("noexec")
ProbeContents == ExeContents \cup {"hangs", "noexec"}

ProbeInit ==
    /\ fs \in {f \in [Paths -> ProbeContents] : \A p \in Paths \ EnvFiles : f[p] = "absent"}
    /\ temp_zip = "none"
    /\ last = [op |-> "init", tool |-> "none"]
    /\ checksum = [t \in Tools |-> PlaceholderChecksum]
    /\ check = NoCheck
    /\ host = NoHost
    /\ run = NewRun
    /\ threads = [p \in Procs |-> IdleThread]
    /\ video_info = ProbeError("OSError")
    /\ ffmpeg_run = "OSError"
    /\ output_file = NoFile
    /\ crop_params = FallbackPlan
    /\ job = IdleJob

ProbeNext == CheckToolAvailability \/ GetToolPath

SpecProbe == ProbeInit /\ [][ProbeNext]_vars

\* The toolchain and a VideoProcessor on one host, with neither
\* config['ffmpeg_path'] nor FFMPEG_BIN set.  The application's base path
\* is %USERPROFILE%\TrendClipOne, so tools/ffmpeg/bin/ffmpeg.exe of the
\* toolchain is the first common location of the VideoProcessor; a file
\* named ffmpeg in the working directory and C:\ffmpeg are independent of
\* the toolchain's files.
AgreeInit ==
    /\ fs \in {f \in [Paths -> ExeContents] :
                \A p \in Paths \ {ToolPath("ffmpeg"), Executable("ffmpeg"), BinExe("ffmpeg.exe")} :
                    f[p] = "absent"}
    /\ host \in {h \in Hosts :
                    /\ h.config = "unset"
                    /\ h.env \in {"unset", ""}
                    /\ h.output_path = NoHost.output_path
                    /\ h.ffprobe_exits
                    /\ h.ffmpeg_exits
                    /\ h.exists \cap {ConfigPath, EnvPath} = {}}
    /\ (expandvars(common_paths[1]) \in host.exists) = (fs[BinExe("ffmpeg.exe")] # "absent")
    /\ run = NewRun
    /\ temp_zip = "none"
    /\ last = [op |-> "init", tool |-> "none"]
    /\ checksum = [t \in Tools |-> PlaceholderChecksum]
    /\ check = NoCheck
    /\ threads = [p \in Procs |-> IdleThread]
    /\ video_info = ProbeError("OSError")
    /\ ffmpeg_run = "OSError"
    /\ output_file = NoFile
    /\ crop_params = FallbackPlan
    /\ job = IdleJob

AgreeNext == CheckToolAvailability \/ NewVideoProcessor

SpecAgree == AgreeInit /\ [][AgreeNext]_vars

\* Two threads that have called heal_tool, on every host that has none,
\* one or both tools on its search path
ConcurrentInit ==
    /\ threads \in {th \in [Procs -> [pc : {"called"}, tool : Tools,
                                       download : Downloads("ffmpeg") \cup Downloads("yt-dlp"),
                                       temp : {"none"}, result : {FALSE}, wrote : {{}}]] :
                        \A p \in Procs : th[p].download \in Downloads(th[p].tool)}
    /\ fs \in {f \in [Paths -> ExeContents] : \A p \in Paths \ SearchPathFiles : f[p] = "absent"}
    /\ temp_zip = "none"
    /\ last = [op |-> "init", tool |-> "none"]
    /\ checksum = [t \in Tools |-> PlaceholderChecksum]
    /\ check = NoCheck
    /\ host = NoHost
    /\ run = NewRun
    /\ video_info = ProbeError("OSError")
    /\ ffmpeg_run = "OSError"
    /\ output_file = NoFile
    /\ crop_params = FallbackPlan
    /\ job = IdleJob

ConcurrentNext ==
    ThreadProbes \/ ThreadDownloads \/ ThreadExtracts \/ ThreadMoves \/ ThreadVerifies

SpecConcurrent == ConcurrentInit /\ [][ConcurrentNext]_vars

JobNext == NewVideoProcessor \/ ProcessTo916Begins \/ FfprobeExits \/ FfmpegExits

SpecJob == JobInit /\ [][JobNext]_vars

SpecInstall == InstallInit /\ [][InstallNext]_vars

SpecChecksum == ChecksumInit /\ [][ChecksumNext]_vars

VideoNext == CalculateCropParameters \/ ProcessTo916 \/ ValidateOutput

ToolNext ==
    \/ CheckToolAvailability
    \/ GetToolPath
    \/ HealTool
    \/ InstallFfmpeg
    \/ InstallYtDlp
    \/ HealAllTools
    \/ OutOfBand

SpecVideo == VideoInit /\ [][VideoNext]_vars

SpecTool == ToolInit /\ [][ToolNext]_vars

(***************************************************************************)
(* Properties of the Geometry Planner and the Transform Executor           *)
(***************************************************************************)
PlanOps == {"calculate_crop_parameters", "process_to_9_16"}

\* get_video_info gave no usable size: the probe failed, its output was not
\* JSON, or no video stream with non-zero width and height is listed
MetadataUnavailable(info) ==
    \/ info.raises # "none"
    \/ \A i \in 1..Len(info.streams) :
          \/ info.streams[i].codec_type # "video"
          \/ info.streams[i].width = 0
          \/ info.streams[i].height = 0

\* C1: a plan computed (not the fallback) from a source of positive width
\* and height has its crop rectangle inside the source frame: crop_x >= 0,
\* crop_y >= 0, crop_width <= width, crop_height <= height,
\* crop_x + crop_width <= width and crop_y + crop_height <= height.
C1_CropInsideSource ==
    (job.op \in PlanOps /\ IsComputed(job.plan)
        /\ job.plan.original_width > 0 /\ job.plan.original_height > 0)
    => /\ job.plan.crop_x >= 0
       /\ job.plan.crop_y >= 0
       /\ job.plan.crop_width <= job.plan.original_width
       /\ job.plan.crop_height <= job.plan.original_height
       /\ job.plan.crop_x + job.plan.crop_width <= job.plan.original_width
       /\ job.plan.crop_y + job.plan.crop_height <= job.plan.original_height

\* a landscape HD source, cropped on both sides
C1_Witness ==
    /\ job.op = "calculate_crop_parameters"
    /\ IsComputed(job.plan)
    /\ job.plan.original_width = 1920 /\ job.plan.original_height = 1080
    /\ job.plan.crop_x = 656 /\ job.plan.crop_width = 607

\* C2: a plan computed from a source of width >= 1 and height >= 1 has
\* crop_width >= 1 and crop_height >= 1.
C2_CropAtLeastOnePixel ==
    (job.op \in PlanOps /\ IsComputed(job.plan)
        /\ job.plan.original_width >= 1 /\ job.plan.original_height >= 1)
    => (job.plan.crop_width >= 1 /\ job.plan.crop_height >= 1)

\* C3: process_to_9_16 returns True only if the output passes validation:
\* when the transcoder exits 0 and the output file is missing, too small or
\* without a video stream, the result is False.
C3_SuccessOnlyIfValidated ==
    (job.op = "process_to_9_16" /\ job.transcode = "exit0"
        /\ ~validate_output(job.output))
    => job.result = FALSE

\* C4: in every metadata failure mode (probe fails, malformed JSON, no video
\* stream, zero width or height) the plan is the fixed fallback plan.
C4_FallbackOnEveryMetadataFailure ==
    (job.op \in PlanOps /\ MetadataUnavailable(video_info))
    => (~IsComputed(job.plan) /\ job.plan = FallbackPlan)

\* C5: a metadata failure never aborts the job: process_to_9_16 still runs
\* the transcoder, and what it returns is decided by the transcoder's exit
\* and the output file alone.
C5_MetadataFailureNeverAborts ==
    (job.op = "process_to_9_16" /\ MetadataUnavailable(video_info))
    => /\ job.events = <<"calculate_crop_parameters", "ffmpeg">>
       /\ job.transcode = ffmpeg_run
       /\ job.result = (ffmpeg_run = "exit0" /\ output_file.exists)

\* the probe printed no JSON, the transcode went through all the same
C5_Witness ==
    /\ job.op = "process_to_9_16"
    /\ video_info.raises = "JSONDecodeError"
    /\ job.events = <<"calculate_crop_parameters", "ffmpeg">>
    /\ job.result = TRUE

(***************************************************************************)
(* Properties of the Toolchain Manager, the Tool Probe and the Installer   *)
(***************************************************************************)
FailedDownloads == {"HTTPError", "IncompleteRead"}
InstallOps == {"install_ffmpeg", "install_yt_dlp"}

\* C6: heal_tool is idempotent: when its first probe reports the tool
\* available it returns True without any download, extraction or move; a
\* heal_tool made right after a successful one of the same tool makes no
\* network call.
C6_HealToolIdempotent ==
    last.op = "heal_tool"
    => /\ last.before.available
            => (last.result /\ last.downloads = 0 /\ ~last.wrote)
       /\ last.follows # "no"
            => (last.result /\ last.downloads = 0 /\ ~last.wrote)

\* the second of two heal_tool calls, the first of which installed the tool
C6_Witness ==
    /\ last.op = "heal_tool"
    /\ last.follows = "install"
    /\ last.before.available
    /\ last.downloads = 0
    /\ last.result

\* C7: heal_all_tools runs heal_tool once for every registered tool whatever
\* the earlier ones returned, and returns one boolean per registered tool:
\* True for a healthy tool, False for a tool whose download failed.
C7_HealAllToolsPartialFailure ==
    last.op = "heal_all_tools"
    => /\ Len(last.heals) = Len(ToolOrder)
       /\ \A i \in 1..Len(last.heals) : last.heals[i].tool = ToolOrder[i]
       /\ DOMAIN last.results = Tools
       /\ \A i \in 1..Len(last.heals) :
            /\ last.results[last.heals[i].tool] \in BOOLEAN
            /\ last.results[last.heals[i].tool] = last.heals[i].result
            /\ last.heals[i].healthy
                 => (last.heals[i].result /\ last.heals[i].downloads = 0)
            /\ last.heals[i].download \in FailedDownloads
                 => ~last.heals[i].result

\* the download of the first tool answers 404, the second tool is healthy
C7_Witness ==
    /\ last.op = "heal_all_tools"
    /\ last.heals[1].download = "HTTPError"
    /\ last.heals[2].healthy
    /\ last.results = [t \in Tools |-> t = ToolOrder[2]]

\* C8: for every registered tool that is unavailable in the tools directory
\* and on the search path, when the download and the extraction deliver a
\* working executable at the expected place, heal_tool installs it where
\* the probe looks, the probe after the install reports it available and
\* heal_tool returns True.
C8_SelfHealEffective ==
    (last.op = "heal_tool" /\ last.tool \in Tools /\ ~last.before.available
        /\ last.download \in {"zip_good", "good"})
    => /\ last.result
       /\ last.verify.available
       /\ check_tool_availability(last.tool, fs).available

\* C9: check_tool_availability and get_tool_path report a path only if that
\* path was executed during the call and exited with 0; after the file an
\* earlier call reported is deleted or corrupted, the next call does not
\* report it, and reports nothing if no other candidate works.
C9_AvailableOnlyIfExecuted ==
    last.op \in ProbeOps
    => /\ last.probe.available
            => /\ \E i \in 1..Len(last.probe.runs) :
                     /\ last.probe.runs[i].path = last.probe.path
                     /\ last.probe.runs[i].exit = "exit0"
               /\ fs[last.probe.path] = "good"
               /\ last.path = last.probe.path
       /\ ~last.probe.available
            => last.path = (IF last.op = "get_tool_path" THEN "None"
                            ELSE IF last.tool \in Tools THEN "" ELSE "Unknown tool")
       /\ (last.tool \in Tools /\ fs[ToolPath(last.tool)] # "good"
                /\ fs[Executable(last.tool)] # "good")
            => ~last.probe.available

\* the file the previous call reported was removed or broken, and
\* get_tool_path now returns None
C9_Witness ==
    /\ last.op = "get_tool_path"
    /\ last.after_loss
    /\ fs[ToolPath(last.tool)] = "bad"
    /\ last.path = "None"

\* C10: an install, and a heal_tool that went through one, returns True only
\* if the probe made after the files were put in place reported the tool
\* available; a download that succeeds but leaves a tool that does not work
\* yields False.
C10_InstallSuccessOnlyIfReprobed ==
    (last.op \in InstallOps \/ (last.op = "heal_tool" /\ last.downloads > 0))
    => /\ last.result
            => /\ last.verify.available
               /\ last.verify.runs # << >>
               /\ last.verify = check_tool_availability(last.tool, fs)
       /\ ~check_tool_availability(last.tool, fs).available => ~last.result

\* yt-dlp.exe was downloaded completely, does not run, and install_yt_dlp
\* returned False
C10_Witness ==
    /\ last.op = "install_yt_dlp"
    /\ last.download = "bad"
    /\ fs[ToolPath("yt-dlp")] = "bad"
    /\ ~last.verify.available
    /\ ~last.result

(***************************************************************************)
(* Properties of the installer's clean-up and of the two crop branches     *)
(***************************************************************************)
\* C12: when install_ffmpeg returns, on its success path and on every
\* failure path, the temporary download file and the tree the archive was
\* extracted to no longer exist.
C12_InstallLeavesNoTemporaries ==
    (last.op = "install_ffmpeg"
        \/ (last.op = "heal_tool" /\ last.tool = "ffmpeg" /\ last.downloads > 0))
    => /\ temp_zip = "none"
       /\ fs[ExtractPath] = "absent"
       /\ \A i \in 1..Len(MovedExes) : fs[ExtractedExe(MovedExes[i])] = "absent"

\* C18: a source strictly wider than 9:16 keeps its height and is cropped on
\* both sides: crop_height = height, crop_width = floor(height * 9 / 16),
\* crop_x = floor((width - crop_width) / 2), crop_y = 0; 1920x1080 gives
\* 607 x 1080 at (656, 0).
C18_WideSourceCropsSides ==
    (job.op \in PlanOps /\ IsComputed(job.plan)
        /\ job.plan.original_width * target_h > job.plan.original_height * target_w)
    => /\ job.plan.crop_height = job.plan.original_height
       /\ job.plan.crop_width * target_h <= job.plan.original_height * target_w
       /\ (job.plan.crop_width + 1) * target_h > job.plan.original_height * target_w
       /\ 2 * job.plan.crop_x <= job.plan.original_width - job.plan.crop_width
       /\ 2 * job.plan.crop_x + 1 >= job.plan.original_width - job.plan.crop_width
       /\ job.plan.crop_y = 0
       /\ (job.plan.original_width = 1920 /\ job.plan.original_height = 1080)
            => (job.plan.crop_width = 607 /\ job.plan.crop_height = 1080
                /\ job.plan.crop_x = 656 /\ job.plan.crop_y = 0)

\* a landscape HD source going through process_to_9_16
C18_Witness ==
    /\ job.op = "process_to_9_16"
    /\ video_info = ProbeDocument(<<AudioStream, VideoStream(1920, 1080)>>)
    /\ IsComputed(job.plan)
    /\ job.plan.crop_width = 607 /\ job.plan.crop_x = 656

\* C19: a source as tall as 9:16 or taller keeps its width and is cropped at
\* top and bottom: crop_width = width, crop_height = floor(width * 16 / 9),
\* crop_y = floor((height - crop_height) / 2), crop_x = 0; when the source
\* is exactly 9:16 the crop is the whole frame at (0, 0).
C19_TallSourceCropsTopBottom ==
    (job.op \in PlanOps /\ IsComputed(job.plan)
        /\ job.plan.original_width * target_h <= job.plan.original_height * target_w)
    => /\ job.plan.crop_width = job.plan.original_width
       /\ job.plan.crop_height * target_w <= job.plan.original_width * target_h
       /\ (job.plan.crop_height + 1) * target_w > job.plan.original_width * target_h
       /\ 2 * job.plan.crop_y <= job.plan.original_height - job.plan.crop_height
       /\ 2 * job.plan.crop_y + 1 >= job.plan.original_height - job.plan.crop_height
       /\ job.plan.crop_x = 0
       /\ job.plan.original_width * target_h = job.plan.original_height * target_w
            => (job.plan.crop_height = job.plan.original_height
                /\ job.plan.crop_y = 0)

\* a portrait HD source, already 9:16: the crop is the whole frame
C19_Witness ==
    /\ job.op = "calculate_crop_parameters"
    /\ IsComputed(job.plan)
    /\ job.plan.original_width = 1080 /\ job.plan.original_height = 1920
    /\ job.plan.crop_width = 1080 /\ job.plan.crop_height = 1920
    /\ job.plan.crop_x = 0 /\ job.plan.crop_y = 0

(***************************************************************************)
(* Properties of the Checksum Verifier                                     *)
(***************************************************************************)
\* C20: verify_checksum returns True for every file, readable or not, when
\* the expected checksum is empty or the placeholder; for any other
\* expected checksum it returns True exactly when the file can be read and
\* its sha256 digest is the expected one.
C20_VerifyChecksum ==
    check.op = "verify_checksum"
    => IF check.expected = << >> \/ check.expected = <<"sha256", "...">>
       THEN check.result = TRUE
       ELSE check.result =
                (/\ check.file.readable
                 /\ Len(check.expected) = 2
                 /\ check.expected[1] = "sha256"
                 /\ check.expected[2] = hexdigest("sha256", check.file.content))

\* a file that cannot be read passes against the placeholder
C20_Witness ==
    /\ check.op = "verify_checksum"
    /\ ~check.file.readable
    /\ check.expected = PlaceholderChecksum
    /\ check.result = TRUE

(***************************************************************************)
(* Properties of the installers' failures                                  *)
(***************************************************************************)
\* C11: when the checksum of a tool is a real digest and the artifact the
\* download delivered has another digest, the install returns False, even
\* when the executable it placed runs.
C11_DigestMismatchFailsInstall ==
    (/\ last.op \in {"install_ffmpeg", "install_yt_dlp"}
     /\ last.download \notin FailedDownloads
     /\ checksum[last.tool] \notin {EmptyChecksum, PlaceholderChecksum}
     /\ checksum[last.tool] # <<"sha256", hexdigest("sha256", last.download)>>)
    => last.result = FALSE

\* C17: two failed installs that failed for different causes (the message
\* each one logged) do not return the same value.
C17_FailuresCarryCause ==
    [][(/\ last.op \in {"install_ffmpeg", "install_yt_dlp"}
        /\ last'.op \in {"install_ffmpeg", "install_yt_dlp"}
        /\ last.result = FALSE
        /\ last'.result = FALSE
        /\ last.log # last'.log)
       => last.result # last'.result]_vars

(***************************************************************************)
(* Properties of one job of the video processor                            *)
(***************************************************************************)
\* C13: a job does not change its input file, and the transcoder is not
\* run with '-y' on an output path that is the input path.
C13_InputNeverOverwritten ==
    /\ run.files[InputPath] = "source"
    /\ (run.cmd.y /\ "ffmpeg" \in {run.events[i] : i \in 1..Len(run.events)})
       => run.cmd.output # run.cmd.i

\* C15: when no transcoder executable exists at any place the processor
\* looks, the job ends in the constructor's error with no plan made and no
\* subprocess attempted; and in every run the resolution comes first, the
\* probe and the plan before the transcoder.
C15_ResolutionBeforePlanAndSubprocess ==
    /\ host.exists = {}
       => /\ run.pc # "returned"
          /\ \A i \in 1..Len(run.events) : run.events[i] = "_get_ffmpeg_path"
    /\ \A i \in 1..Len(run.events) :
          /\ run.events[i] = "_get_ffmpeg_path" => i = 1
          /\ run.events[i] = "ffmpeg"
             => \E j \in 1..(i - 1) : run.events[j] = "calculate_crop_parameters"
          /\ run.events[i] = "calculate_crop_parameters" => i > 1

\* C16: a job that has not ended can take a step: no job waits forever for
\* a subprocess that does not exit.
C16_JobNeverBlockedForever ==
    run.pc \notin {"raised", "returned"} => ENABLED JobNext

(***************************************************************************)
(* Properties of concurrent heal_tool calls                                *)
(***************************************************************************)
\* C14: two threads healing the same tool are never both between the
\* start of the download and the end of the move of that tool's install.
C14_SameToolInstallsSerialized ==
    \A p \in Procs : \A q \in Procs \ {p} :
        ~(/\ threads[p].tool = threads[q].tool
          /\ threads[p].pc \in {"download", "extract", "move"}
          /\ threads[q].pc \in {"download", "extract", "move"})

\* C21: calculate_file_checksum on a file that cannot be read ends with an
\* IOError and returns no string.
C21_UnreadableFileRaisesIOError ==
    (check.op = "calculate_file_checksum" /\ ~check.file.readable)
    => check.raises = "IOError"

(***************************************************************************)
(* Properties of the probe                                                 *)
(***************************************************************************)
\* C22: check_tool_availability returns a (bool, path) pair on every host.
\* A candidate whose run times out, cannot be started or exits non-zero
\* counts as failed: after a failed file in the tools directory the search
\* path is still tried, and when both fail the result is (False, "").
C22_ProbeTreatsFailuresAsUnavailable ==
    (last.op = "check_tool_availability" /\ last.tool \in Tools)
    => LET managed == fs[ToolPath(last.tool)]
           search == fs[Executable(last.tool)]
           runs == last.probe.runs
       IN  /\ last.probe.available \in BOOLEAN
           /\ \A i \in 1..Len(runs) :
                 runs[i].exit \in {"exit0", "nonzero", "TimeoutExpired", "PermissionError",
                                   "FileNotFoundError"}
           /\ managed \in {"bad", "hangs", "noexec"}
              => /\ Len(runs) = 2
                 /\ runs[2].path = Executable(last.tool)
                 /\ last.probe.available = (search = "good")
           /\ (managed # "good" /\ search # "good")
              => (~last.probe.available /\ last.probe.path = "")

\* the file in the tools directory hangs, the one on the search path works
C22_Witness ==
    /\ last.op = "check_tool_availability"
    /\ last.tool \in Tools
    /\ fs[ToolPath(last.tool)] = "hangs"
    /\ fs[Executable(last.tool)] = "good"
    /\ last.probe.available
    /\ last.probe.path = Executable(last.tool)

\* C23: the tools directory is asked first and the search path second, and
\* the first candidate that exits 0 wins: the tools-directory path whenever
\* that file exists and exits 0, the bare executable name only when it is
\* absent or failed and the search-path run exits 0, (False, ...) otherwise.
C23_ManagedDirectoryFirst ==
    (last.op = "check_tool_availability" /\ last.tool \in Tools)
    => LET managed == fs[ToolPath(last.tool)]
           search == fs[Executable(last.tool)]
           pr == last.probe
       IN  /\ managed = "good"
              => (pr.available /\ pr.path = ToolPath(last.tool) /\ Len(pr.runs) = 1)
           /\ (managed # "good" /\ search = "good")
              => (pr.available /\ pr.path = Executable(last.tool))
           /\ (managed # "good" /\ search # "good") => ~pr.available
           /\ (managed # "absent") => pr.runs[1].path = ToolPath(last.tool)
           /\ \A i \in 1..Len(pr.runs) :
                 pr.runs[i].path = Executable(last.tool) => i = Len(pr.runs)

\* both candidates work and the tools-directory one is returned
C23_Witness ==
    /\ last.op = "check_tool_availability"
    /\ last.tool \in Tools
    /\ fs[ToolPath(last.tool)] = "good"
    /\ fs[Executable(last.tool)] = "good"
    /\ last.probe.path = ToolPath(last.tool)

(***************************************************************************)
(* Properties of the transcoder invocation and of the output validation    *)
(***************************************************************************)
\* C24: process_to_9_16 starts the transcoder at most once, and when the
\* transcoder exits non-zero it returns False whether or not a file is at
\* output_path.
C24_SingleInvocationNonZeroFails ==
    job.op = "process_to_9_16"
    => /\ Cardinality({i \in 1..Len(job.events) : job.events[i] = "ffmpeg"}) <= 1
       /\ job.transcode = "nonzero" => job.result = FALSE

\* a non-zero exit that left a file at output_path
C24_Witness ==
    /\ job.op = "process_to_9_16"
    /\ job.transcode = "nonzero"
    /\ job.output.exists
    /\ job.output.size >= MinOutputSize
    /\ job.result = FALSE

\* C25: heal_tool('ffmpeg') and heal_tool('yt-dlp') running together never
\* create, write, move or delete the same path.
C25_DifferentToolsDisjointWrites ==
    \A p \in Procs : \A q \in Procs \ {p} :
        threads[p].tool # threads[q].tool
        => threads[p].wrote \cap threads[q].wrote = {}

\* both installs ran to their end, the ffmpeg one through extract and move
C25_Witness ==
    \E p \in Procs : \E q \in Procs \ {p} :
        /\ threads[p].tool = "ffmpeg"
        /\ threads[q].tool = "yt-dlp"
        /\ threads[p].pc = "returned"
        /\ threads[q].pc = "returned"
        /\ BinExe("ffmpeg.exe") \in threads[p].wrote
        /\ ToolPath("yt-dlp") \in threads[q].wrote

\* C26: validate_output returns True exactly when the file exists, has at
\* least MinOutputSize bytes, its probe succeeds and the probe lists a
\* stream of codec_type 'video'; otherwise it returns False.
C26_ValidateOutputExact ==
    job.op = "validate_output"
    => /\ job.result \in BOOLEAN
       /\ job.result
          <=> /\ job.output.exists
              /\ job.output.size >= MinOutputSize
              /\ job.output.probe.raises = "none"
              /\ \E i \in 1..Len(job.output.probe.streams) :
                    job.output.probe.streams[i].codec_type = "video"

\* a file of exactly the threshold size with a video stream is accepted
C26_Witness ==
    /\ job.op = "validate_output"
    /\ job.output.exists
    /\ job.output.size = MinOutputSize
    /\ job.result = TRUE

\* C27: whenever check_tool_availability returns available = False, for a
\* registered or an unregistered name, the path it returns is "".
C27_UnavailableHasEmptyPath ==
    (last.op = "check_tool_availability" /\ ~last.probe.available)
    => last.probe.path = ""

(***************************************************************************)
(* Properties of failed installs, of the two components' agreement on the  *)
(* transcoder, and of the plan's target size                               *)
(***************************************************************************)
\* C28: an install that returns False leaves every file of the tools
\* directory as it was before the call.
C28_FailedInstallRestoresToolsDirectory ==
    [][(last'.op \in InstallOps /\ last'.result = FALSE)
       => \A p \in ManagedFiles : fs'[p] = fs[p]]_vars

\* the probe's path and the VideoProcessor's path name the same executable:
\* both are the bare name handed to the host's search
SameTranscoder(probe_path, ffmpeg_path) ==
    \/ probe_path = Executable("ffmpeg") /\ ffmpeg_path = common_paths[3]
    \/ probe_path = ffmpeg_path

\* C29: with no config and no FFMPEG_BIN override, whenever the probe of
\* 'ffmpeg' reports available, the constructor of the VideoProcessor
\* succeeds and its ffmpeg_path is the executable the probe found.
C29_ToolchainAndProcessorAgree ==
    (/\ last.op = "check_tool_availability"
     /\ last.tool = "ffmpeg"
     /\ last.probe.available
     /\ run.pc # "new")
    => /\ run.pc = "constructed"
       /\ SameTranscoder(last.probe.path, run.ffmpeg_path)

\* C30: the plan in the command has the target size the command scales and
\* pads to.
C30_PlanTargetIsOutputFrame ==
    run.cmd.y
    => /\ run.cmd.crop.target_width = run.cmd.scale.width
       /\ run.cmd.crop.target_height = run.cmd.scale.height

====
